---- MODULE Spec2Model ----
(***************************************************************************)
(* A model of guide.py: ProjectAnalyzer walks a project tree, asks an      *)
(* external oracle for a summary of every file and directory, keeps the    *)
(* summaries in a JSON findings file and a text transcript, and finally    *)
(* asks for one developer guide.                                           *)
(*                                                                         *)
(* Python strings (paths, keys, oracle texts) are sequences of one-        *)
(* character strings, so that `excluded in str(path)` is a real substring  *)
(* test.  A JSON file is the sequence of tokens json.dump wrote; json.load *)
(* is a parser of that sequence, and fails on a truncated one.             *)
(***************************************************************************)
EXTENDS Integers, Sequences, FiniteSets, TLC

(***************************************************************************)
(* Strings                                                                 *)
(***************************************************************************)

\* guide.py:12-34.  Entries 17 and 18 of the source are adjacent literals
\* with no comma between them: Python concatenates them into one entry.
EXCLUSION_LIST ==
  << <<".","g","i","t">>,
     <<".","v","e","n","v">>,
     <<"n","o","d","e","_","m","o","d","u","l","e","s">>,
     <<"_","_","p","y","c","a","c","h","e","_","_">>,
     <<".","D","S","_","S","t","o","r","e">>,
     <<"p","b","_","d","a","t","a">>,
     <<"p","b","_","p","u","b","l","i","c">>,
     <<"m","i","g","r","a","t","i","o","n","s">>,
     <<".","i","d","e","a">>,
     <<"k","8","s">>,
     <<"o","l","t">>,
     <<"v","e","n","v">>,
     <<"c","o","m","p","o","s","e",".","y","a","m","l">>,
     <<"D","o","c","k","e","r","f","i","l","e">>,
     <<"h","a","n","d","l","e","r","s","/","_","_","p","y","c","a","c","h","e","_","_">>,
     <<"h","a","n","d","l","e","r","s","/","c","o","r","a","l","R","e","e","f","C","l","u","s","t","e","r","i","n","g","/","_","_","p","y","c","a","c","h","e","_","_">>,
     <<"h","a","n","d","l","e","r","s","/","d","i","s","j","o","i","n","t","P","a","t","h","P","l","o","t","/","_","_","p","y","c","a","c","h","e","_","_","h","a","n","d","l","e","r","s","/","l","o","g","i","c","a","l","_","a","d","j","a","c","e","n","c","y","/","_","_","p","y","c","a","c","h","e","_","_">>,
     <<"u","t","i","l","s","/","_","_","p","y","c","a","c","h","e","_","_">>,
     <<"i","m","a","g","e","s">>,
     <<"d","a","t","a">>
  >>

\* Contains that looks for t at the start of s only.
Contains_start(s, t) == Len(t) <= Len(s) /\ SubSeq(s, 1, Len(t)) = t

\* `t in s` of two Python strings: t occurs in s as a contiguous substring.
Contains(s, t) ==
  \E i \in 1..(Len(s) - Len(t) + 1) : SubSeq(s, i, i + Len(t) - 1) = t

\* guide.py:100-101.
is_excluded(path) ==
  \E i \in 1..Len(EXCLUSION_LIST) : Contains(path, EXCLUSION_LIST[i])

Sep == <<"/">>

\* Path(dir) / name, os.path.join(dir, name).
JoinPath(dir, name) == dir \o Sep \o name

IsPrefix(p, s) == Len(p) <= Len(s) /\ SubSeq(s, 1, Len(p)) = p

\* str(Path(path).relative_to(base)) for a path at or below base: "." for the
\* base itself, else the part after "base/".
relative_to(path, base) ==
  IF path = base THEN <<".">>
  ELSE SubSeq(path, Len(base) + 2, Len(path))

\* Whether relative_to raises ValueError: path is not at or below base.
IsRelativeTo(path, base) ==
  path = base \/ IsPrefix(base \o Sep, path)

(***************************************************************************)
(* JSON values, json.dump and json.load                                    *)
(***************************************************************************)

\* A JSON value of the findings structure: a string, or an object whose
\* members keep their insertion order (a Python dict).
JStr(s) == [kind |-> "str", s |-> s]
JObj(items) == [kind |-> "obj", items |-> items]

root_summary == <<"r","o","o","t","_","s","u","m","m","a","r","y">>
directories == <<"d","i","r","e","c","t","o","r","i","e","s">>
files == <<"f","i","l","e","s">>

DictHas(items, k) == \E i \in 1..Len(items) : items[i].k = k

DictIndex(items, k) == CHOOSE i \in 1..Len(items) : items[i].k = k

\* d[k] for a key that is present.
DictGet(items, k) == items[DictIndex(items, k)].v

\* DictSet that never looks for the key: every assignment adds a member.
DictSet_append(items, k, v) == Append(items, [k |-> k, v |-> v])

\* d[k] = v: a present key keeps its place, a new key goes last.
DictSet(items, k, v) ==
  IF DictHas(items, k)
  THEN [items EXCEPT ![DictIndex(items, k)] = [k |-> k, v |-> v]]
  ELSE Append(items, [k |-> k, v |-> v])

DictKeys(items) == {items[i].k : i \in 1..Len(items)}

\* guide.py:66-70.
InitialStructure ==
  JObj(<< [k |-> root_summary, v |-> JStr(<<>>)],
          [k |-> directories, v |-> JObj(<<>>)],
          [k |-> files, v |-> JObj(<<>>)] >>)

\* The tokens of a JSON text.
TokOpen == [t |-> "{"]
TokClose == [t |-> "}"]
TokStr(s) == [t |-> "s", s |-> s]

RECURSIVE Dump(_)
RECURSIVE DumpMembers(_, _)
\* json.dump(value): the text written, as tokens.
Dump(val) ==
  IF val.kind = "str" THEN << TokStr(val.s) >>
  ELSE << TokOpen >> \o DumpMembers(val.items, 1) \o << TokClose >>

DumpMembers(items, i) ==
  IF i > Len(items) THEN << >>
  ELSE << TokStr(items[i].k) >> \o Dump(items[i].v) \o DumpMembers(items, i + 1)

RECURSIVE ParseValue(_, _)
RECURSIVE ParseMembers(_, _, _)
\* The JSON value that starts at token i: [ok, v, next]; ok is FALSE where the
\* decoder raises JSONDecodeError.
ParseValue(toks, i) ==
  IF i > Len(toks) THEN [ok |-> FALSE, v |-> JStr(<<>>), next |-> i]
  ELSE IF toks[i].t = "s" THEN [ok |-> TRUE, v |-> JStr(toks[i].s), next |-> i + 1]
  ELSE IF toks[i].t = "{" THEN ParseMembers(toks, i + 1, << >>)
  ELSE [ok |-> FALSE, v |-> JStr(<<>>), next |-> i]

ParseMembers(toks, i, acc) ==
  IF i > Len(toks) THEN [ok |-> FALSE, v |-> JStr(<<>>), next |-> i]
  ELSE IF toks[i].t = "}" THEN [ok |-> TRUE, v |-> JObj(acc), next |-> i + 1]
  ELSE IF toks[i].t = "s"
    THEN LET r == ParseValue(toks, i + 1)
         IN  IF r.ok THEN ParseMembers(toks, r.next, DictSet(acc, toks[i].s, r.v))
             ELSE r
  ELSE [ok |-> FALSE, v |-> JStr(<<>>), next |-> i]

\* json.load(f): [ok, v]; the whole text must be one value.
Load(toks) ==
  LET r == ParseValue(toks, 1)
  IN  [ok |-> r.ok /\ r.next = Len(toks) + 1, v |-> r.v]

(***************************************************************************)
(* FindingsStore.update as a function of the structure read                *)
(***************************************************************************)

RECURSIVE SetPath(_, _, _)
\* SetPath that puts a new empty mapping at every intermediate key instead
\* of keeping the one that is there.
SetPath_fresh(current, ks, value) ==
  IF Len(ks) = 0 \/ current.kind # "obj" THEN [ok |-> FALSE, v |-> current]
  ELSE IF Len(ks) = 1
    THEN [ok |-> TRUE, v |-> JObj(DictSet(current.items, ks[1], value))]
  ELSE LET r == SetPath(JObj(<< >>), Tail(ks), value)
       IN  [ok |-> TRUE, v |-> JObj(DictSet(current.items, ks[1], r.v))]

\* guide.py:92-95: walk key[:-1] with setdefault, then assign key[-1].
\* ok is FALSE where Python raises: an empty tuple (IndexError) or a string
\* met where a mapping is needed (AttributeError, TypeError).
SetPath(current, ks, value) ==
  IF Len(ks) = 0 \/ current.kind # "obj" THEN [ok |-> FALSE, v |-> current]
  ELSE IF Len(ks) = 1
    THEN [ok |-> TRUE, v |-> JObj(DictSet(current.items, ks[1], value))]
  ELSE LET child == IF DictHas(current.items, ks[1])
                    THEN DictGet(current.items, ks[1])
                    ELSE JObj(<< >>)
           r == SetPath(child, Tail(ks), value)
       IN  IF r.ok
           THEN [ok |-> TRUE, v |-> JObj(DictSet(current.items, ks[1], r.v))]
           ELSE [ok |-> FALSE, v |-> current]

\* A key of _update_findings: one string, or a tuple of strings.
Key(k) == [tuple |-> FALSE, ks |-> << k >>]
KeyTuple(ks) == [tuple |-> TRUE, ks |-> ks]

\* UpdateFindings that sets the key in a fresh initial structure rather than
\* in the structure that was read.
UpdateFindings_fresh(findings, key, value) ==
  IF key.tuple THEN SetPath(InitialStructure, key.ks, value)
  ELSE [ok |-> TRUE, v |-> JObj(DictSet(InitialStructure.items, key.ks[1], value))]

\* guide.py:91-97, on the structure _read_findings returned.
UpdateFindings(findings, key, value) ==
  IF key.tuple THEN SetPath(findings, key.ks, value)
  ELSE IF findings.kind # "obj" THEN [ok |-> FALSE, v |-> findings]
  ELSE [ok |-> TRUE, v |-> JObj(DictSet(findings.items, key.ks[1], value))]

\* WriteFindings that writes the initial structure whatever it is given.
WriteFindings_reset(data) == Dump(InitialStructure)

\* guide.py:73-76: the text of the findings file once the write completed.
WriteFindings(data) == Dump(data)

\* guide.py:88-98 with every file operation completing: the text the findings
\* file holds afterwards, and whether the call raised.  A text that does not
\* decode, or an update that raises, leaves the file as it was.
UpdateFile(text, key, value) ==
  LET r == Load(text)
      u == UpdateFindings(r.v, key, value)
  IN  IF ~r.ok THEN [raised |-> TRUE, text |-> text]
      ELSE IF ~u.ok THEN [raised |-> TRUE, text |-> text]
      ELSE [raised |-> FALSE, text |-> WriteFindings(u.v)]

(***************************************************************************)
(* The project tree and the inputs of a run                                *)
(***************************************************************************)

\* The oracle's answers: message.content[0].text is any string, the empty one
\* included.
Texts == { << >>, <<"t">> }

\* Values of GUIDE_TARGET_PROJECT_DIRECTORY: unset, empty, a directory whose
\* path holds no exclusion token, and one whose path holds the token "k8s".
Unset == [set |-> FALSE, value |-> << >>]
EnvValue(v) == [set |-> TRUE, value |-> v]
Environs ==
  { Unset, EnvValue(<< >>), EnvValue(<<"/","w">>), EnvValue(<<"/","k","8","s">>) }

\* A tree entry: the directory that holds it, relative to the project
\* directory (empty for the project directory itself), and its name.
Entry(parent, name) == [parent |-> parent, name |-> name]

\* The directories of the project tree, in the order the file system lists
\* them: e, the excluded k8s, s and s/l.
TreeDirs ==
  << Entry(<< >>, <<"e">>),
     Entry(<< >>, <<"k","8","s">>),
     Entry(<< >>, <<"s">>),
     Entry(<<"s">>, <<"l">>) >>

\* Every file a tree can hold, in the order the file system lists them.
AllFiles ==
  << Entry(<< >>, <<"a">>),
     Entry(<<"e">>, <<"b","o","l","t">>),
     Entry(<<"k","8","s">>, <<"x">>),
     Entry(<<"s">>, <<"m">>),
     Entry(<<"s">>, <<"n">>),
     Entry(<<"s","/","l">>, <<"u">>) >>

\* Files that every tree holds: a, s/l/u, k8s/x under the excluded directory,
\* and e/bolt, whose name holds the token "olt".
FixedFiles ==
  { Entry(<< >>, <<"a">>),
    Entry(<<"s","/","l">>, <<"u">>),
    Entry(<<"k","8","s">>, <<"x">>),
    Entry(<<"e">>, <<"b","o","l","t">>) }

\* Files a tree may hold or not, readable or not: s/m and s/n.
OptionalFiles ==
  { Entry(<<"s">>, <<"m">>),
    Entry(<<"s">>, <<"n">>) }

\* The path of the directory `parent` below the project directory pd.
DirPath(pd, parent) == IF parent = << >> THEN pd ELSE JoinPath(pd, parent)

EntryPath(pd, e) == JoinPath(DirPath(pd, e.parent), e.name)

VARIABLES
  environ,          \* os.environ.get('GUIDE_TARGET_PROJECT_DIRECTORY')
  tree_files,       \* the file entries of the project tree
  unreadable,       \* the file entries whose content does not decode as UTF-8
  now,              \* the wall clock, in ticks
  io_faults,        \* writes to the output files that failed so far
  findings_files,   \* timestamp -> text of findings/<timestamp>/findings.json
  summaries_files,  \* timestamp -> blocks of initial-summaries_<timestamp>.txt
  guidebooks,       \* timestamp -> text of guidebook_<timestamp>.md
  pc,               \* per run: where main() stands
  timestamp,        \* per run: self.timestamp
  walk,             \* per run: the directories os.walk has still to yield
  cur_dir,          \* per run: dir_path of the analyze_directory in progress
  pending,          \* per run: the files of cur_dir not analysed yet
  file_summaries,   \* per run: file_summaries of the analyze_directory in progress
  log,              \* per run: what each analysis step did, in order
  calls             \* the calls made on a method on its own, in order

vars ==
  << environ, tree_files, unreadable, now, io_faults, findings_files,
     summaries_files, guidebooks, pc, timestamp, walk, cur_dir, pending,
     file_summaries, log, calls >>

\* Bounds of the model.
NumRuns == 2
MaxFaults == 1
MaxPartial == 1
MaxNow == 3
\* Clock ticks per second: strftime("%Y%m%d_%H%M%S") drops what is below.
TicksPerSecond == 2

Runs == 1..NumRuns

NoTimestamp == -1

\* guide.py:41: datetime.now().strftime("%Y%m%d_%H%M%S").
Strftime(t) == t \div TicksPerSecond

project_dir == environ.value

\* A function with one more (or one replaced) entry.
Put(f, k, v) == [x \in DOMAIN f \cup {k} |-> IF x = k THEN v ELSE f[x]]

Event(op, path, res, text) == [op |-> op, path |-> path, res |-> res, text |-> text]

Logged(self, e) == log' = [log EXCEPT ![self] = Append(@, e)]

(***************************************************************************)
(* The output files                                                        *)
(***************************************************************************)

\* guide.py:75-76 cut short (the disk is full, the device fails):
\* open(path, 'w') has emptied the file and json.dump wrote only a part.
\* At most MaxPartial tokens got written.
Interrupted(text) ==
  { SubSeq(text, 1, n) : n \in { m \in 0..MaxPartial : m < Len(text) } }

\* What _write_findings can leave in the file, and whether it raised.
WriteOutcomes(text) ==
  { [raised |-> FALSE, fault |-> FALSE, text |-> text] }
  \cup IF io_faults < MaxFaults
       THEN { [raised |-> TRUE, fault |-> TRUE, text |-> t] : t \in Interrupted(text) }
       ELSE { }

\* What _update_findings(key, value) can leave in a findings file that holds
\* `text`, and whether it raised.
StoreOutcomes(text, key, value) ==
  LET u == UpdateFile(text, key, value)
  IN  IF u.raised THEN { [raised |-> TRUE, fault |-> FALSE, text |-> u.text] }
      ELSE WriteOutcomes(u.text)

\* A block of the transcript: its tag, the path it is tagged with, its text.
\* whole is FALSE for a block whose write was cut short.
Block(tag, path, text) == [tag |-> tag, path |-> path, text |-> text, whole |-> TRUE]

\* guide.py:78-81: what _append_to_summaries can leave in the transcript.
AppendOutcomes(blocks, b) ==
  { [raised |-> FALSE, fault |-> FALSE, blocks |-> Append(blocks, b)] }
  \cup IF io_faults < MaxFaults
       THEN { [raised |-> TRUE, fault |-> TRUE, blocks |-> blocks],
              [raised |-> TRUE, fault |-> TRUE,
               blocks |-> Append(blocks, [b EXCEPT !.whole = FALSE])] }
       ELSE { }

Transcript(ts) == IF ts \in DOMAIN summaries_files THEN summaries_files[ts] ELSE << >>

\* self._update_findings(key, text) followed by self._append_to_summaries(b)
\* (guide.py:126-127, 160-161, 210-211): the append runs only if the update
\* did not raise.  res names what was raised: StoreCorruptError where the
\* findings did not decode, WriteError where the write was cut short,
\* AppendError where the append failed.  appended tells whether the transcript
\* was opened at all.
RecordOutcomes(ts, key, text, b) ==
  LET stored == StoreOutcomes(findings_files[ts], key, JStr(text))
  IN  { [res |-> IF o.fault THEN "WriteError" ELSE "StoreCorruptError",
         findings |-> o.text, appended |-> FALSE,
         blocks |-> Transcript(ts), fault |-> o.fault] : o \in { x \in stored : x.raised } }
      \cup
      UNION { { [res |-> IF a.raised THEN "AppendError" ELSE "ok",
                 findings |-> o.text, appended |-> TRUE,
                 blocks |-> a.blocks, fault |-> a.fault]
                : a \in AppendOutcomes(Transcript(ts), b) }
              : o \in { x \in stored : ~x.raised } }

\* The effect of one outcome of RecordOutcomes on the files.
Recorded(ts, r) ==
  /\ findings_files' = Put(findings_files, ts, r.findings)
  /\ summaries_files' = IF r.appended THEN Put(summaries_files, ts, r.blocks)
                        ELSE summaries_files
  /\ io_faults' = IF r.fault THEN io_faults + 1 ELSE io_faults

(***************************************************************************)
(* main(): one action per step of a run                                    *)
(***************************************************************************)

\* Main without the test of lines 331-333: the analyzer is constructed
\* whatever the environment holds.
Main_unchecked(self) ==
  /\ pc[self] = "main"
  /\ \E o \in WriteOutcomes(WriteFindings(InitialStructure)) :
       /\ timestamp' = [timestamp EXCEPT ![self] = Strftime(now)]
       /\ findings_files' = Put(findings_files, Strftime(now), o.text)
       /\ io_faults' = IF o.fault THEN io_faults + 1 ELSE io_faults
       /\ pc' = [pc EXCEPT ![self] = IF o.raised THEN "failed" ELSE "analyze_root"]
  /\ UNCHANGED << calls, environ, tree_files, unreadable, now, summaries_files,
                  guidebooks, walk, cur_dir, pending, file_summaries, log >>

\* guide.py:329-336 and 37-55: main() reads the environment and returns if the
\* directory is missing; else ProjectAnalyzer.__init__ takes the timestamp,
\* makes the findings directory (exist_ok) and writes the initial findings.
Main(self) ==
  /\ pc[self] = "main"
  /\ IF ~environ.set \/ environ.value = << >>
     THEN /\ pc' = [pc EXCEPT ![self] = "returned"]
          /\ UNCHANGED << timestamp, findings_files, io_faults >>
     ELSE \E o \in WriteOutcomes(WriteFindings(InitialStructure)) :
            /\ timestamp' = [timestamp EXCEPT ![self] = Strftime(now)]
            /\ findings_files' = Put(findings_files, Strftime(now), o.text)
            /\ io_faults' = IF o.fault THEN io_faults + 1 ELSE io_faults
            /\ pc' = [pc EXCEPT ![self] = IF o.raised THEN "failed" ELSE "analyze_root"]
  /\ UNCHANGED << calls, environ, tree_files, unreadable, now, summaries_files,
                  guidebooks, walk, cur_dir, pending, file_summaries, log >>

\* AnalyzeRoot with the oracle call guarded like the one of analyze_file: a
\* failure is logged and the walk begins all the same.
AnalyzeRoot_caught(self) ==
  /\ pc[self] = "analyze_root"
  /\ \/ /\ Logged(self, Event("root", <<".">>, "OracleError", << >>))
        /\ pc' = [pc EXCEPT ![self] = "walk"]
        /\ walk' = [walk EXCEPT ![self] = << project_dir >>]
        /\ UNCHANGED << findings_files, summaries_files, io_faults >>
     \/ \E summary \in Texts :
        \E r \in RecordOutcomes(timestamp[self], Key(root_summary), summary,
                                Block("Overview", << >>, summary)) :
          /\ Recorded(timestamp[self], r)
          /\ Logged(self, Event("root", <<".">>, r.res, summary))
          /\ pc' = [pc EXCEPT ![self] = IF r.res = "ok" THEN "walk" ELSE "failed"]
          /\ walk' = IF r.res = "ok" THEN [walk EXCEPT ![self] = << project_dir >>]
                     ELSE walk
  /\ UNCHANGED << calls, environ, tree_files, unreadable, now, guidebooks, timestamp,
                  cur_dir, pending, file_summaries >>

\* guide.py:103-128.  An oracle failure or a failing write propagates out of
\* analyze_project and main.
AnalyzeRoot(self) ==
  /\ pc[self] = "analyze_root"
  /\ \/ /\ Logged(self, Event("root", <<".">>, "OracleError", << >>))
        /\ pc' = [pc EXCEPT ![self] = "failed"]
        /\ UNCHANGED << findings_files, summaries_files, io_faults, walk >>
     \/ \E summary \in Texts :
        \E r \in RecordOutcomes(timestamp[self], Key(root_summary), summary,
                                Block("Overview", << >>, summary)) :
          /\ Recorded(timestamp[self], r)
          /\ Logged(self, Event("root", <<".">>, r.res, summary))
          /\ pc' = [pc EXCEPT ![self] = IF r.res = "ok" THEN "walk" ELSE "failed"]
          /\ walk' = IF r.res = "ok" THEN [walk EXCEPT ![self] = << project_dir >>]
                     ELSE walk
  /\ UNCHANGED << calls, environ, tree_files, unreadable, now, guidebooks, timestamp,
                  cur_dir, pending, file_summaries >>

\* WalkDirs without the pruning of line 227: every subdirectory is descended
\* into.
WalkDirs_unpruned(root) ==
  LET kept == SelectSeq(TreeDirs, LAMBDA e : DirPath(project_dir, e.parent) = root)
  IN  [i \in 1..Len(kept) |-> JoinPath(root, kept[i].name)]

\* guide.py:225-227: the subdirectories os.walk descends into from `root`,
\* those whose name alone passes is_excluded, in listing order.
WalkDirs(root) ==
  LET kept == SelectSeq(TreeDirs, LAMBDA e : DirPath(project_dir, e.parent) = root
                                             /\ ~is_excluded(e.name))
  IN  [i \in 1..Len(kept) |-> JoinPath(root, kept[i].name)]

\* guide.py:178-179: the files of dir_path whose path passes is_excluded, in
\* listing order.
QualifyingFiles(dir_path) ==
  LET found == SelectSeq(AllFiles, LAMBDA e : e \in tree_files
                                              /\ DirPath(project_dir, e.parent) = dir_path
                                              /\ ~is_excluded(EntryPath(project_dir, e)))
  IN  [i \in 1..Len(found) |-> EntryPath(project_dir, found[i])]

\* Path(file).name: what follows the last separator.
Name(path) ==
  LET seps == { i \in 1..Len(path) : path[i] = "/" }
      last == IF seps = { } THEN 0 ELSE CHOOSE i \in seps : \A j \in seps : j <= i
  IN  SubSeq(path, last + 1, Len(path))

UnreadablePaths == { EntryPath(project_dir, e) : e \in unreadable }

\* WalkDone that stops the walk one directory early.
WalkDone_early(self) == Len(walk[self]) <= 1

\* guide.py:225: os.walk has nothing left to yield.
WalkDone(self) == walk[self] = << >>

\* guide.py:225-230 and 169-182: os.walk yields the next directory, its
\* excluded subdirectories are pruned, and analyze_directory starts on it:
\* it returns at once for an excluded path or a directory with no qualifying
\* file.  When os.walk is exhausted analyze_project returns.
WalkNext(self) ==
  /\ pc[self] = "walk"
  /\ IF WalkDone(self)
     THEN /\ pc' = [pc EXCEPT ![self] = "generate_developer_guide"]
          /\ UNCHANGED << walk, cur_dir, pending, file_summaries, log >>
     ELSE LET root == Head(walk[self])
              found == IF is_excluded(root) THEN << >> ELSE QualifyingFiles(root)
          IN  /\ walk' = [walk EXCEPT ![self] = WalkDirs(root) \o Tail(@)]
              /\ Logged(self, Event("analyze_directory", root,
                                    IF is_excluded(root) THEN "excluded"
                                    ELSE IF found = << >> THEN "empty" ELSE "files",
                                    << >>))
              /\ pc' = [pc EXCEPT ![self] = IF found = << >> THEN "walk" ELSE "analyze_file"]
              /\ cur_dir' = [cur_dir EXCEPT ![self] = IF found = << >> THEN << >> ELSE root]
              /\ pending' = [pending EXCEPT ![self] = found]
              /\ file_summaries' = [file_summaries EXCEPT ![self] = << >>]
  /\ UNCHANGED << calls, environ, tree_files, unreadable, now, io_faults, findings_files,
                  summaries_files, guidebooks, timestamp >>

\* Collects with the test of line 188 left out: whatever analyze_file
\* returned joins file_summaries.
Collects_any(res, summary) == TRUE

\* guide.py:187-189: analyze_file returned the summary rather than None (which
\* it returns once anything raised), and `if summary:` lets it through.
Collects(res, summary) == res = "ok" /\ summary # << >>

\* guide.py:186-189 and 130-167: analyze_file on the next file of the
\* directory.  Every exception is caught and makes it return None; a summary
\* that is returned joins file_summaries if it is not empty.
AnalyzeFile(self) ==
  /\ pc[self] = "analyze_file"
  /\ LET file == Head(pending[self])
         rel_path == relative_to(file, project_dir)
     IN  \/ /\ file \in UnreadablePaths
            /\ Logged(self, Event("file", rel_path, "ReadError", << >>))
            /\ UNCHANGED << findings_files, summaries_files, io_faults, file_summaries >>
         \/ /\ file \notin UnreadablePaths
            /\ Logged(self, Event("file", rel_path, "OracleError", << >>))
            /\ UNCHANGED << findings_files, summaries_files, io_faults, file_summaries >>
         \/ /\ file \notin UnreadablePaths
            /\ \E summary \in Texts :
               \E r \in RecordOutcomes(timestamp[self], KeyTuple(<< files, rel_path >>),
                                       summary, Block("File", rel_path, summary)) :
                 /\ Recorded(timestamp[self], r)
                 /\ Logged(self, Event("file", rel_path, r.res, summary))
                 /\ file_summaries' =
                      IF Collects(r.res, summary)
                      THEN [file_summaries EXCEPT ![self] =
                              Append(@, [name |-> Name(file), summary |-> summary])]
                      ELSE file_summaries
  /\ pending' = [pending EXCEPT ![self] = Tail(@)]
  /\ pc' = [pc EXCEPT ![self] = IF Len(pending[self]) = 1 THEN "analyze_directory"
                                ELSE "analyze_file"]
  /\ UNCHANGED << calls, environ, tree_files, unreadable, now, guidebooks, timestamp,
                  walk, cur_dir >>

\* DirectorySummary without the test of line 192: the directory-level summary
\* is asked for whatever file_summaries holds.
DirectorySummary_unguarded(self) ==
  /\ pc[self] = "analyze_directory"
  /\ LET rel_path == relative_to(cur_dir[self], project_dir)
     IN  \/ /\ Logged(self, Event("directory", rel_path, "OracleError", << >>))
            /\ UNCHANGED << findings_files, summaries_files, io_faults >>
         \/ \E summary \in Texts :
            \E r \in RecordOutcomes(timestamp[self], KeyTuple(<< directories, rel_path >>),
                                    summary, Block("Directory", rel_path, summary)) :
              /\ Recorded(timestamp[self], r)
              /\ Logged(self, Event("directory", rel_path, r.res, summary))
  /\ pc' = [pc EXCEPT ![self] = "walk"]
  /\ cur_dir' = [cur_dir EXCEPT ![self] = << >>]
  /\ file_summaries' = [file_summaries EXCEPT ![self] = << >>]
  /\ UNCHANGED << calls, environ, tree_files, unreadable, now, guidebooks, timestamp,
                  walk, pending >>

\* guide.py:191-215: the directory-level summary, asked for only if
\* file_summaries is not empty; every exception is caught and logged.
DirectorySummary(self) ==
  /\ pc[self] = "analyze_directory"
  /\ LET rel_path == relative_to(cur_dir[self], project_dir)
     IN  \/ /\ file_summaries[self] = << >>
            /\ UNCHANGED << findings_files, summaries_files, io_faults, log >>
         \/ /\ file_summaries[self] # << >>
            /\ Logged(self, Event("directory", rel_path, "OracleError", << >>))
            /\ UNCHANGED << findings_files, summaries_files, io_faults >>
         \/ /\ file_summaries[self] # << >>
            /\ \E summary \in Texts :
               \E r \in RecordOutcomes(timestamp[self], KeyTuple(<< directories, rel_path >>),
                                       summary, Block("Directory", rel_path, summary)) :
                 /\ Recorded(timestamp[self], r)
                 /\ Logged(self, Event("directory", rel_path, r.res, summary))
  /\ pc' = [pc EXCEPT ![self] = "walk"]
  /\ cur_dir' = [cur_dir EXCEPT ![self] = << >>]
  /\ file_summaries' = [file_summaries EXCEPT ![self] = << >>]
  /\ UNCHANGED << calls, environ, tree_files, unreadable, now, guidebooks, timestamp,
                  walk, pending >>

\* GuideInputsReadable with the findings not decoded before the guide is
\* asked for.
GuideInputsReadable_unchecked(ts) == ts \in DOMAIN summaries_files

\* guide.py:240-244: json.load of the findings file and the read of the
\* transcript both succeed.
GuideInputsReadable(ts) ==
  Load(findings_files[ts]).ok /\ ts \in DOMAIN summaries_files

\* guide.py:339-340, 235-254 and 256-327: the findings and the transcript are
\* read back, the oracle is asked for the guide, and the guide is written.
\* Nothing here is caught.
GenerateGuide(self) ==
  /\ pc[self] = "generate_developer_guide"
  /\ LET ts == timestamp[self]
         readable == GuideInputsReadable(ts)
     IN  \/ /\ ~readable
            /\ Logged(self, Event("guide", << >>, "StoreCorruptError", << >>))
            /\ pc' = [pc EXCEPT ![self] = "failed"]
            /\ UNCHANGED guidebooks
         \/ /\ readable
            /\ Logged(self, Event("guide", << >>, "OracleError", << >>))
            /\ pc' = [pc EXCEPT ![self] = "failed"]
            /\ UNCHANGED guidebooks
         \/ /\ readable
            /\ \E guide \in Texts :
                 /\ guidebooks' = Put(guidebooks, ts, guide)
                 /\ Logged(self, Event("guide", << >>, "ok", guide))
            /\ pc' = [pc EXCEPT ![self] = "done"]
  /\ UNCHANGED << calls, environ, tree_files, unreadable, now, io_faults, findings_files,
                  summaries_files, timestamp, walk, cur_dir, pending, file_summaries >>

(***************************************************************************)
(* One run over every tree                                                 *)
(***************************************************************************)

Init ==
  /\ environ \in Environs
  /\ \E present \in SUBSET OptionalFiles :
       /\ tree_files = FixedFiles \cup present
       /\ unreadable \in SUBSET present
  /\ now = 0
  /\ io_faults = 0
  /\ findings_files = << >>
  /\ summaries_files = << >>
  /\ guidebooks = << >>
  /\ pc = [r \in Runs |-> IF r = 1 THEN "main" ELSE "idle"]
  /\ timestamp = [r \in Runs |-> NoTimestamp]
  /\ walk = [r \in Runs |-> << >>]
  /\ cur_dir = [r \in Runs |-> << >>]
  /\ pending = [r \in Runs |-> << >>]
  /\ file_summaries = [r \in Runs |-> << >>]
  /\ log = [r \in Runs |-> << >>]
  /\ calls = << >>

Next ==
  \/ Main(1)
  \/ AnalyzeRoot(1)
  \/ WalkNext(1)
  \/ AnalyzeFile(1)
  \/ DirectorySummary(1)
  \/ GenerateGuide(1)

Spec == Init /\ [][Next]_vars

(***************************************************************************)
(* Several runs against the same project directory                         *)
(***************************************************************************)

\* guide.py:41: the wall clock that datetime.now() reads moves on.
Tick ==
  /\ now < MaxNow
  /\ now' = now + 1
  /\ UNCHANGED << calls, environ, tree_files, unreadable, io_faults, findings_files,
                  summaries_files, guidebooks, pc, timestamp, walk, cur_dir,
                  pending, file_summaries, log >>

\* guide.py:347-348: main() is started once per run, at any time; the runs
\* share the project directory and the working directory.  The tree holds
\* the one file a, which is readable, and no write fails.
InitRuns ==
  /\ environ = EnvValue(<<"/","w">>)
  /\ tree_files = { Entry(<< >>, <<"a">>) }
  /\ unreadable = { }
  /\ now = 0
  /\ io_faults = MaxFaults
  /\ findings_files = << >>
  /\ summaries_files = << >>
  /\ guidebooks = << >>
  /\ pc = [r \in Runs |-> "main"]
  /\ timestamp = [r \in Runs |-> NoTimestamp]
  /\ walk = [r \in Runs |-> << >>]
  /\ cur_dir = [r \in Runs |-> << >>]
  /\ pending = [r \in Runs |-> << >>]
  /\ file_summaries = [r \in Runs |-> << >>]
  /\ log = [r \in Runs |-> << >>]
  /\ calls = << >>

NextRuns ==
  \/ Tick
  \/ \E self \in Runs : Main(self)
  \/ \E self \in Runs : AnalyzeRoot(self)
  \/ \E self \in Runs : WalkNext(self)
  \/ \E self \in Runs : AnalyzeFile(self)
  \/ \E self \in Runs : DirectorySummary(self)
  \/ \E self \in Runs : GenerateGuide(self)

SpecRuns == InitRuns /\ [][NextRuns]_vars

(***************************************************************************)
(* _update_findings called on its own                                      *)
(***************************************************************************)

MaxCalls == 3

\* The findings file of the one store the calls go to.
TheStore == 0

\* What the findings file can hold before a call: the initial structure, a
\* write of it that was cut short, a JSON text that is not an object.
StoreTexts ==
  { WriteFindings(InitialStructure), WriteFindings(JStr(<<"t">>)) }
  \cup Interrupted(WriteFindings(InitialStructure))

\* Key paths: a present and an absent single key, tuples that reach a mapping
\* of the structure, create one, pass through a string, or are empty.
UpdateKeys ==
  { Key(root_summary),
    Key(<<"k">>),
    KeyTuple(<< files, <<"a">> >>),
    KeyTuple(<< files, <<"c">> >>),
    KeyTuple(<< files, <<"a">>, <<"b">> >>),
    KeyTuple(<< <<"k">>, <<"a">> >>),
    KeyTuple(<< >>) }

UpdateValues == { JStr(<<"t">>), JObj(<< >>) }

InitUpdate ==
  /\ environ = EnvValue(<<"/","w">>)
  /\ tree_files = FixedFiles
  /\ unreadable = { }
  /\ now = 0
  /\ io_faults = MaxFaults
  /\ \E text \in StoreTexts : findings_files = Put(<< >>, TheStore, text)
  /\ summaries_files = << >>
  /\ guidebooks = << >>
  /\ pc = [r \in Runs |-> "idle"]
  /\ timestamp = [r \in Runs |-> NoTimestamp]
  /\ walk = [r \in Runs |-> << >>]
  /\ cur_dir = [r \in Runs |-> << >>]
  /\ pending = [r \in Runs |-> << >>]
  /\ file_summaries = [r \in Runs |-> << >>]
  /\ log = [r \in Runs |-> << >>]
  /\ calls = << >>

\* guide.py:88-98: one call _update_findings(key, value).
Update ==
  /\ Len(calls) < MaxCalls
  /\ \E key \in UpdateKeys, value \in UpdateValues :
       LET u == UpdateFile(findings_files[TheStore], key, value)
       IN  /\ findings_files' = Put(findings_files, TheStore, u.text)
           /\ calls' = Append(calls, [key |-> key, value |-> value,
                                      raised |-> u.raised,
                                      before |-> findings_files[TheStore],
                                      after |-> u.text])
  /\ UNCHANGED << environ, tree_files, unreadable, now, io_faults, summaries_files,
                  guidebooks, pc, timestamp, walk, cur_dir, pending,
                  file_summaries, log >>

NextUpdate == Update

SpecUpdate == InitUpdate /\ [][NextUpdate]_vars

(***************************************************************************)
(* _write_findings and _read_findings called on their own                  *)
(***************************************************************************)

MaxEntries == 2

\* Keys of the mappings of a findings structure.
StoreKeys == { <<"a">>, <<"s">> }

\* The mappings of at most MaxEntries entries, keys distinct, values in Texts.
Mappings ==
  LET entries == { [k |-> k, v |-> JStr(t)] : k \in StoreKeys, t \in Texts }
      seqs == UNION { [1..n -> entries] : n \in 0..MaxEntries }
  IN  { m \in seqs : \A i \in 1..Len(m) : \A j \in 1..Len(m) :
                        i # j => m[i].k # m[j].k }

\* guide.py:66-70: the findings structures with the three fields.
Structures ==
  { JObj(<< [k |-> root_summary, v |-> JStr(t)],
            [k |-> directories, v |-> JObj(d)],
            [k |-> files, v |-> JObj(f)] >>) :
      t \in Texts, d \in Mappings, f \in Mappings }

StoreCall(op, data, ok) == [op |-> op, data |-> data, ok |-> ok]

\* No findings file exists yet.
InitStore ==
  /\ environ = EnvValue(<<"/","w">>)
  /\ tree_files = FixedFiles
  /\ unreadable = { }
  /\ now = 0
  /\ io_faults = MaxFaults
  /\ findings_files = << >>
  /\ summaries_files = << >>
  /\ guidebooks = << >>
  /\ pc = [r \in Runs |-> "idle"]
  /\ timestamp = [r \in Runs |-> NoTimestamp]
  /\ walk = [r \in Runs |-> << >>]
  /\ cur_dir = [r \in Runs |-> << >>]
  /\ pending = [r \in Runs |-> << >>]
  /\ file_summaries = [r \in Runs |-> << >>]
  /\ log = [r \in Runs |-> << >>]
  /\ calls = << >>

\* guide.py:64-71: _init_findings_file().  calls restarts at each write: it
\* holds the last write and the reads made since.
InitFindingsFile ==
  /\ findings_files' = Put(findings_files, TheStore, WriteFindings(InitialStructure))
  /\ calls' = << StoreCall("init", InitialStructure, TRUE) >>
  /\ UNCHANGED << environ, tree_files, unreadable, now, io_faults, summaries_files,
                  guidebooks, pc, timestamp, walk, cur_dir, pending,
                  file_summaries, log >>

\* guide.py:73-76: _write_findings(data), the write completing.
WriteCall ==
  /\ \E data \in Structures :
       /\ findings_files' = Put(findings_files, TheStore, WriteFindings(data))
       /\ calls' = << StoreCall("write", data, TRUE) >>
  /\ UNCHANGED << environ, tree_files, unreadable, now, io_faults, summaries_files,
                  guidebooks, pc, timestamp, walk, cur_dir, pending,
                  file_summaries, log >>

\* guide.py:83-86: _read_findings() on the file that exists.
ReadCall ==
  /\ TheStore \in DOMAIN findings_files
  /\ Len(calls) < MaxCalls
  /\ LET r == Load(findings_files[TheStore])
     IN  calls' = Append(calls, StoreCall("read", r.v, r.ok))
  /\ UNCHANGED << environ, tree_files, unreadable, now, io_faults, findings_files,
                  summaries_files, guidebooks, pc, timestamp, walk, cur_dir,
                  pending, file_summaries, log >>

NextStore == InitFindingsFile \/ WriteCall \/ ReadCall

SpecStore == InitStore /\ [][NextStore]_vars

(***************************************************************************)
(* analyze_file called on its own, a path possibly more than once          *)
(***************************************************************************)

\* The paths analyze_file is called on, in order: up to MaxCalls calls on the
\* files a and s/m.
CallSequences ==
  LET paths == { EntryPath(<<"/","w">>, Entry(<< >>, <<"a">>)),
                 EntryPath(<<"/","w">>, Entry(<<"s">>, <<"m">>)) }
  IN  UNION { [1..n -> paths] : n \in 1..MaxCalls }

\* guide.py:37-55: the analyzer is constructed, its findings file holds the
\* initial structure, and the calls of analyze_file are about to be made.
InitFile ==
  /\ environ = EnvValue(<<"/","w">>)
  /\ tree_files = FixedFiles \cup OptionalFiles
  /\ unreadable \in SUBSET { Entry(<<"s">>, <<"m">>) }
  /\ now = 0
  /\ io_faults = 0
  /\ findings_files = Put(<< >>, Strftime(0), WriteFindings(InitialStructure))
  /\ summaries_files = << >>
  /\ guidebooks = << >>
  /\ pc = [r \in Runs |-> IF r = 1 THEN "analyze_file" ELSE "idle"]
  /\ timestamp = [r \in Runs |-> IF r = 1 THEN Strftime(0) ELSE NoTimestamp]
  /\ walk = [r \in Runs |-> << >>]
  /\ cur_dir = [r \in Runs |-> << >>]
  /\ \E todo \in CallSequences :
       pending = [r \in Runs |-> IF r = 1 THEN todo ELSE << >>]
  /\ file_summaries = [r \in Runs |-> << >>]
  /\ log = [r \in Runs |-> << >>]
  /\ calls = << >>

NextFile == AnalyzeFile(1)

SpecFile == InitFile /\ [][NextFile]_vars

(***************************************************************************)
(* is_excluded called on its own                                           *)
(***************************************************************************)

\* Names to build paths from, each told to hold an exclusion token or not:
\* tokens themselves, the first of the two adjacent literals of lines 29-30,
\* and near misses (a token cut short, split by a separator, in another
\* case, without its dot).
PathCores ==
  { [core |-> <<"k","8","s">>, token |-> TRUE],
    [core |-> <<"o","l","t">>, token |-> TRUE],
    [core |-> <<".","g","i","t">>, token |-> TRUE],
    [core |-> <<"d","a","t","a">>, token |-> TRUE],
    [core |-> <<"v","e","n","v">>, token |-> TRUE],
    [core |-> <<"_","_","p","y","c","a","c","h","e","_","_">>, token |-> TRUE],
    [core |-> <<"h","a","n","d","l","e","r","s","/","d","i","s","j","o","i","n","t","P","a","t","h","P","l","o","t","/","_","_","p","y","c","a","c","h","e","_","_">>, token |-> TRUE],
    [core |-> <<"a">>, token |-> FALSE],
    [core |-> <<"k","8">>, token |-> FALSE],
    [core |-> <<"o","l">>, token |-> FALSE],
    [core |-> <<"d","a","t">>, token |-> FALSE],
    [core |-> <<"k","8","/","s">>, token |-> FALSE],
    [core |-> <<"g","i","t">>, token |-> FALSE],
    [core |-> <<"K","8","S">>, token |-> FALSE],
    [core |-> <<"e","n","v">>, token |-> FALSE] }

\* What precedes and what follows the name in the path: nothing, a directory,
\* or more letters of a longer name.
PathBefore == { << >>, <<"/","w","/">>, <<"x">> }
PathAfter == { << >>, <<"/","z">>, <<"y">> }

InitExcluded ==
  /\ environ = EnvValue(<<"/","w">>)
  /\ tree_files = FixedFiles
  /\ unreadable = { }
  /\ now = 0
  /\ io_faults = MaxFaults
  /\ findings_files = << >>
  /\ summaries_files = << >>
  /\ guidebooks = << >>
  /\ pc = [r \in Runs |-> "idle"]
  /\ timestamp = [r \in Runs |-> NoTimestamp]
  /\ walk = [r \in Runs |-> << >>]
  /\ cur_dir = [r \in Runs |-> << >>]
  /\ pending = [r \in Runs |-> << >>]
  /\ file_summaries = [r \in Runs |-> << >>]
  /\ log = [r \in Runs |-> << >>]
  /\ calls = << >>

\* guide.py:100-101: one call is_excluded(path); calls holds the last call.
IsExcluded ==
  /\ \E c \in PathCores, b \in PathBefore, a \in PathAfter :
       LET path == b \o c.core \o a
       IN  calls' = << [path |-> path, result |-> is_excluded(path)] >>
  /\ UNCHANGED << environ, tree_files, unreadable, now, io_faults, findings_files,
                  summaries_files, guidebooks, pc, timestamp, walk, cur_dir,
                  pending, file_summaries, log >>

NextExcluded == IsExcluded

SpecExcluded == InitExcluded /\ [][NextExcluded]_vars

(***************************************************************************)
(* _update_findings called by two callers on one findings file             *)
(***************************************************************************)

\* The key paths the callers update, each at most once.
RaceKeys ==
  { Key(root_summary),
    KeyTuple(<< files, <<"a">> >>),
    KeyTuple(<< directories, <<"s">> >>) }

\* The calls of the caller, as places in `calls`.
CallsOf(self) == { i \in 1..Len(calls) : calls[i].caller = self }

\* guide.py:90: the caller has read the findings and has not written yet.
Reading(self) ==
  /\ CallsOf(self) # { }
  /\ calls[CHOOSE i \in CallsOf(self) : \A j \in CallsOf(self) : j <= i].op = "read"

LastCall(self) == calls[CHOOSE i \in CallsOf(self) : \A j \in CallsOf(self) : j <= i]

InitRace ==
  /\ environ = EnvValue(<<"/","w">>)
  /\ tree_files = FixedFiles
  /\ unreadable = { }
  /\ now = 0
  /\ io_faults = MaxFaults
  /\ findings_files = Put(<< >>, TheStore, WriteFindings(InitialStructure))
  /\ summaries_files = << >>
  /\ guidebooks = << >>
  /\ pc = [r \in Runs |-> "idle"]
  /\ timestamp = [r \in Runs |-> NoTimestamp]
  /\ walk = [r \in Runs |-> << >>]
  /\ cur_dir = [r \in Runs |-> << >>]
  /\ pending = [r \in Runs |-> << >>]
  /\ file_summaries = [r \in Runs |-> << >>]
  /\ log = [r \in Runs |-> << >>]
  /\ calls = << >>

\* guide.py:88-90: _update_findings(key, value) starts and reads the file.
UpdateRead(self) ==
  /\ ~Reading(self)
  /\ Cardinality({ i \in 1..Len(calls) : calls[i].op = "read" }) < MaxCalls
  /\ \E key \in RaceKeys, value \in { JStr(<<"t">>) } :
       /\ \A i \in 1..Len(calls) : calls[i].key # key
       /\ calls' = Append(calls, [op |-> "read", caller |-> self, key |-> key,
                                  value |-> value,
                                  findings |-> Load(findings_files[TheStore]).v])
  /\ UNCHANGED << environ, tree_files, unreadable, now, io_faults, findings_files,
                  summaries_files, guidebooks, pc, timestamp, walk, cur_dir,
                  pending, file_summaries, log >>

\* guide.py:91-98: the structure read is modified and written back.
UpdateWrite(self) ==
  /\ Reading(self)
  /\ LET c == LastCall(self)
         u == UpdateFindings(c.findings, c.key, c.value)
     IN  /\ findings_files' = Put(findings_files, TheStore, WriteFindings(u.v))
         /\ calls' = Append(calls, [c EXCEPT !.op = "write", !.findings = u.v])
  /\ UNCHANGED << environ, tree_files, unreadable, now, io_faults, summaries_files,
                  guidebooks, pc, timestamp, walk, cur_dir, pending,
                  file_summaries, log >>

NextRace ==
  \/ \E self \in Runs : UpdateRead(self)
  \/ \E self \in Runs : UpdateWrite(self)

SpecRace == InitRace /\ [][NextRace]_vars

(***************************************************************************)
(* What the output files of a run hold                                     *)
(***************************************************************************)

Started(self) == timestamp[self] # NoTimestamp

Findings(self) == Load(findings_files[timestamp[self]])

\* The findings file decodes to the three-field record of root_summary (a
\* string), directories and files (mappings of strings).
Shape(r) ==
  /\ r.ok
  /\ LET v == r.v
     IN  /\ v.kind = "obj"
         /\ Len(v.items) = 3
         /\ DictKeys(v.items) = { root_summary, directories, files }
         /\ DictGet(v.items, root_summary).kind = "str"
         /\ \A m \in { directories, files } :
              LET entries == DictGet(v.items, m)
              IN  /\ entries.kind = "obj"
                  /\ \A i \in 1..Len(entries.items) : entries.items[i].v.kind = "str"

WellFormed(self) == Started(self) /\ Shape(Findings(self))

\* The mapping `field` of the findings, as a set of <<key, text>> pairs; empty
\* when the file does not decode.
Mapping(self, field) ==
  IF ~Started(self) THEN { }
  ELSE LET r == Findings(self)
       IN  IF Shape(r)
           THEN LET items == DictGet(r.v.items, field).items
                IN  { << items[i].k, items[i].v.s >> : i \in 1..Len(items) }
           ELSE { }

FileKeys(self) == { e[1] : e \in Mapping(self, files) }
DirKeys(self) == { e[1] : e \in Mapping(self, directories) }

RootSummary(self) ==
  IF WellFormed(self) THEN DictGet(Findings(self).v.items, root_summary).s ELSE << >>

Events(self) == { log[self][i] : i \in 1..Len(log[self]) }

\* The events of the analysis steps proper (root, file, directory, guide).
Analyses(self) == { e \in Events(self) : e.op # "analyze_directory" }

\* Collection is over: analyze_project has returned.
Collected(self) == pc[self] \in { "generate_developer_guide", "done" }
                   \/ \E e \in Events(self) : e.op = "guide"

\* The non-excluded files of the tree, and the non-excluded directories that
\* hold at least one of them, as paths relative to the project directory.
NonExcludedFiles ==
  { relative_to(EntryPath(project_dir, e), project_dir) :
      e \in { x \in tree_files : ~is_excluded(EntryPath(project_dir, x)) } }

NonEmptyDirs ==
  { relative_to(DirPath(project_dir, e.parent), project_dir) :
      e \in { x \in tree_files : ~is_excluded(EntryPath(project_dir, x)) } }

(***************************************************************************)
(* Claims                                                                  *)
(***************************************************************************)

\* No step of the run raised an exception, and no file is unreadable.
NothingRaised(self) ==
  /\ unreadable = { }
  /\ \A e \in Analyses(self) : e.res = "ok"

\* C1: after a complete run in which every oracle call succeeded and every
\* file was readable, `files` has one key per non-excluded file and
\* `directories` one key per non-excluded directory holding such a file.
C1_Counts ==
  (pc[1] = "done" /\ NothingRaised(1))
    => /\ Cardinality(FileKeys(1)) = Cardinality(NonExcludedFiles)
       /\ Cardinality(DirKeys(1)) = Cardinality(NonEmptyDirs)

\* The same with every file summary non-empty, which is what the code
\* delivers: line 188 drops an empty summary from the directory's composition.
C1_CountsNonEmpty ==
  (pc[1] = "done" /\ NothingRaised(1)
     /\ \A e \in Analyses(1) : e.op = "file" => e.text # << >>)
    => /\ FileKeys(1) = NonExcludedFiles
       /\ DirKeys(1) = NonEmptyDirs

\* p is the path d or a path below it.
Under(p, d) == p = d \/ IsPrefix(d \o Sep, p)

\* The directory part of a relative file path ("." for a root-level file).
DirOf(rel) == IF Name(rel) = rel THEN <<".">> ELSE SubSeq(rel, 1, Len(rel) - Len(Name(rel)) - 1)

FileEvents(self) == { e \in Events(self) : e.op = "file" }
DirEvents(self) == { e \in Events(self) : e.op = "directory" }
Visits(self) == { e \in Events(self) : e.op = "analyze_directory" }

K8s == <<"k","8","s">>
RelA == <<"a">>
RelS == <<"s">>
RelM == <<"s","/","m">>
RelN == <<"s","/","n">>
RelSL == <<"s","/","l">>

\* C2: with the readable file a and the excluded subdirectory k8s (holding
\* k8s/x) in the project root: no key of `files` or `directories` is a path
\* under k8s, the walk never calls analyze_directory on k8s and nothing under
\* it is analysed; and once collection is over, `files` holds the entry of a
\* whose analysis succeeded (no write to the output files having failed).
C2_ExcludedSubdir ==
  /\ \A k \in FileKeys(1) \cup DirKeys(1) : ~Under(k, K8s)
  /\ \A e \in Visits(1) : ~Under(e.path, JoinPath(project_dir, K8s))
  /\ \A e \in FileEvents(1) \cup DirEvents(1) : ~Under(e.path, K8s)
  /\ (Collected(1) /\ io_faults = 0
        /\ \E e \in FileEvents(1) : e.path = RelA /\ e.res = "ok")
       => LET entries == Mapping(1, files)
          IN  \E e \in FileEvents(1) : e.path = RelA /\ << RelA, e.text >> \in entries

\* C2's case: a run went through the whole tree, which holds k8s/x, and the
\* entry of a is in `files`.
C2_Witness ==
  /\ pc[1] = "done"
  /\ Entry(K8s, <<"x">>) \in tree_files
  /\ RelA \in FileKeys(1)
  /\ Cardinality(Visits(1)) > 1

\* analyze_directory has returned for the directory with relative path rel,
\* all of whose qualifying files were handed to analyze_file.
Returned(self, rel) ==
  /\ \E v \in Visits(self) : v.res = "files" /\ relative_to(v.path, project_dir) = rel
  /\ cur_dir[self] = << >> \/ relative_to(cur_dir[self], project_dir) # rel

\* The scenario of C3: s holds s/m and s/n, exactly one of them unreadable,
\* analyze_directory has returned for s, nothing else raised in it, no write
\* to the output files failed, and synthesis has not begun.
C3_Scenario ==
  /\ { Entry(RelS, <<"m">>), Entry(RelS, <<"n">>) } \subseteq tree_files
  /\ Cardinality(unreadable) = 1
  /\ Returned(1, RelS)
  /\ io_faults = 0
  /\ \A e \in FileEvents(1) : e.path \in { RelM, RelN } => e.res \in { "ok", "ReadError" }
  /\ \A e \in DirEvents(1) : e.path = RelS => e.res = "ok"
  /\ \A e \in Events(1) : e.op # "guide"

\* C3: in that scenario `files` has the entry of the succeeding file only,
\* `directories` has the entry of s, and the run has not failed.
C3_OneOfTwoFails ==
  C3_Scenario =>
    /\ Cardinality(FileKeys(1) \cap { RelM, RelN }) = 1
    /\ \A e \in FileEvents(1) :
         e.path \in { RelM, RelN } => (e.path \in FileKeys(1) <=> e.res = "ok")
    /\ RelS \in DirKeys(1)
    /\ pc[1] \in { "walk", "analyze_file", "analyze_directory", "generate_developer_guide" }

\* The same where the succeeding file's summary is not empty, which is what
\* the code delivers.
C3_OneOfTwoFailsNonEmpty ==
  (C3_Scenario /\ \A e \in FileEvents(1) : e.res = "ok" => e.text # << >>)
    => /\ Cardinality(FileKeys(1) \cap { RelM, RelN }) = 1
       /\ RelS \in DirKeys(1)
       /\ pc[1] \in { "walk", "analyze_file", "analyze_directory", "generate_developer_guide" }

\* Every directory of the tree, and those the walk is to reach: the project
\* directory and every directory with no excluded name on its way down.
AllDirPaths ==
  { project_dir } \cup
  { JoinPath(DirPath(project_dir, TreeDirs[i].parent), TreeDirs[i].name) : i \in 1..Len(TreeDirs) }

NonPruned ==
  { d \in AllDirPaths : d = project_dir \/ ~is_excluded(relative_to(d, project_dir)) }

\* Every analyze_file of the directory rel raised.
AllFailed(self, rel) ==
  \A e \in FileEvents(self) : DirOf(e.path) = rel => e.res # "ok"

\* C4: when every qualifying file of a directory failed analysis, no
\* directory-level request is issued for it and `directories` has no key for
\* it; the walk still calls analyze_directory on every directory it is to
\* reach; and (no write to the output files having failed) every directory
\* summary obtained is in `directories`.
C4_AllFilesFail ==
  /\ LET dir_keys == DirKeys(1)
     IN  \A v \in Visits(1) :
           LET rel == relative_to(v.path, project_dir)
           IN  (Returned(1, rel) /\ AllFailed(1, rel))
                 => /\ \A e \in DirEvents(1) : e.path # rel
                    /\ rel \notin dir_keys
  /\ Collected(1) => { v.path : v \in Visits(1) } = NonPruned
  /\ io_faults = 0 =>
       LET entries == Mapping(1, directories)
       IN  \A e \in DirEvents(1) : e.res = "ok" => << e.path, e.text >> \in entries

\* C4's case: both files of s failed, and the walk went on to s/l, whose
\* entry is in `directories`, as is the root's.
C4_Witness ==
  /\ Collected(1)
  /\ \E e \in FileEvents(1) : e.path = RelM
  /\ \E e \in FileEvents(1) : e.path = RelN
  /\ AllFailed(1, RelS)
  /\ RelS \notin DirKeys(1)
  /\ { RelSL, <<".">> } \subseteq DirKeys(1)

Stopped(self) == pc[self] \in { "done", "failed" }

GuideWritten(self) == Started(self) /\ timestamp[self] \in DOMAIN guidebooks

\* The state part of C5: an oracle failure in analyze_root is the last thing
\* the run did, with nothing analysed, root_summary empty and no guide; an
\* oracle failure in synthesis is the last thing the run did, with no guide;
\* and a run that failed did so in analyze_root, in synthesis or in the
\* constructor, never in analyze_file or analyze_directory.
C5_State ==
  /\ \A i \in 1..Len(log[1]) :
       (log[1][i].op \in { "root", "guide" } /\ log[1][i].res = "OracleError")
         => /\ i = Len(log[1])
            /\ pc[1] = "failed"
            /\ ~GuideWritten(1)
  /\ (\E e \in Events(1) : e.op = "root" /\ e.res = "OracleError")
       => /\ Len(log[1]) = 1
          /\ WellFormed(1)
          /\ RootSummary(1) = << >>
          /\ FileKeys(1) = { } /\ DirKeys(1) = { }
          /\ Transcript(timestamp[1]) = << >>
  /\ pc[1] = "failed" =>
       \/ log[1] = << >>
       \/ log[1][Len(log[1])].op \in { "root", "guide" }

\* C5: a failure of the oracle in analyze_root or in synthesis terminates the
\* run (C5_State); the synthesis step leaves the findings and the transcript
\* as collection left them; a step of analyze_file or analyze_directory,
\* whatever raised in it, leaves the run in the collection phase.
C5_FatalPhases ==
  /\ []C5_State
  /\ [][ /\ pc[1] = "generate_developer_guide"
           => UNCHANGED << findings_files, summaries_files >>
         /\ pc[1] \in { "analyze_file", "analyze_directory" }
           => pc'[1] \in { "analyze_file", "analyze_directory", "walk" } ]_vars

\* C5's cases: the oracle failed in synthesis after entries were collected;
\* the oracle failed in analyze_root; and an analyze_file raised while the
\* run went on to finish.
C5_Witness ==
  /\ pc[1] = "failed"
  /\ \E e \in Events(1) : e.op = "guide" /\ e.res = "OracleError"
  /\ \E e \in FileEvents(1) : e.res = "OracleError"
  /\ FileKeys(1) # { }

\* C6, state part: every file or directory step comes after the root summary
\* was stored; synthesis begins only with os.walk exhausted, no
\* analyze_directory in progress and every directory of the walk visited; no
\* step follows the synthesis step.
C6_State ==
  /\ \A i \in 1..Len(log[1]) :
       log[1][i].op \in { "analyze_directory", "file", "directory", "guide" }
         => i > 1 /\ log[1][1].op = "root" /\ log[1][1].res = "ok"
  /\ (FileKeys(1) \cup DirKeys(1) # { })
       => RootSummary(1) = log[1][1].text
  /\ (pc[1] = "generate_developer_guide" \/ \E e \in Events(1) : e.op = "guide")
       => /\ walk[1] = << >>
          /\ pending[1] = << >> /\ cur_dir[1] = << >>
          /\ { v.path : v \in Visits(1) } = NonPruned
  /\ \A i \in 1..Len(log[1]) : log[1][i].op = "guide" => i = Len(log[1])

\* C6: the run is collection, then synthesis, with no way back (C6_State),
\* and from the start of synthesis on neither the findings nor the transcript
\* changes.
C6_TwoPhases ==
  /\ []C6_State
  /\ [][ pc[1] \in { "generate_developer_guide", "done" }
           => /\ UNCHANGED << findings_files, summaries_files >>
              /\ pc'[1] \in { "generate_developer_guide", "done", "failed" } ]_vars

\* C6's case: a finished run that stored file and directory entries.
C6_Witness ==
  /\ pc[1] = "done"
  /\ GuideWritten(1)
  /\ FileKeys(1) # { }
  /\ DirKeys(1) # { }

\* The findings hold exactly the summaries of the analyses that succeeded, and
\* the transcript one whole block for each of them.
HoldsWhatSucceeded(self) ==
  LET ok == { e \in Analyses(self) : e.res = "ok" /\ e.op # "guide" }
      blocks == Transcript(timestamp[self])
  IN  /\ Mapping(self, files) = { << e.path, e.text >> : e \in { x \in ok : x.op = "file" } }
      /\ Mapping(self, directories) =
           { << e.path, e.text >> : e \in { x \in ok : x.op = "directory" } }
      /\ \A e \in ok : e.op = "root" => RootSummary(self) = e.text
      /\ \A i \in 1..Len(blocks) : blocks[i].whole
      /\ Len(blocks) = Cardinality(ok)

\* C7: whenever a run has stopped after its store was created and used, the
\* findings file is well-formed with its three fields and holds what
\* succeeded, and the transcript is readable with a block per success.
C7_StoppedStoreValid ==
  (Stopped(1) /\ log[1] # << >>) => (WellFormed(1) /\ HoldsWhatSucceeded(1))

\* What does hold: a run that stopped with no write to its output files cut
\* short left a well-formed findings file holding what succeeded.
C7_ValidWithoutFaults ==
  (Stopped(1) /\ Started(1) /\ io_faults = 0) => (WellFormed(1) /\ HoldsWhatSucceeded(1))

\* C8 as stated: an update that met an unreadable findings record ended the
\* run there and then: it is the last step taken and the run has failed.
C8_CorruptReadIsFatal ==
  \A i \in 1..Len(log[1]) :
    log[1][i].res = "StoreCorruptError" => (i = Len(log[1]) /\ pc[1] = "failed")

\* C8 as amended: an unreadable record met in analyze_root or in synthesis
\* ends the run there; met in analyze_file or analyze_directory it is caught,
\* the run stays in the collection phase and goes on, no later step repairs
\* the record, and the run never completes nor writes a guide.
C8_CorruptReadCaught ==
  \A i \in 1..Len(log[1]) :
    log[1][i].res = "StoreCorruptError" =>
      /\ ~WellFormed(1)
      /\ pc[1] # "done"
      /\ ~GuideWritten(1)
      /\ log[1][i].op \in { "root", "guide" } => (i = Len(log[1]) /\ pc[1] = "failed")
      /\ (log[1][i].op \in { "file", "directory" } /\ i = Len(log[1]))
           => pc[1] \in { "analyze_file", "analyze_directory", "walk",
                          "generate_developer_guide" }
      /\ \A j \in (i + 1)..Len(log[1]) :
           log[1][j].op \in { "root", "file", "directory" }
             => log[1][j].res \in { "ReadError", "OracleError", "StoreCorruptError" }

\* C8's case: an analyze_file met the unreadable record, later analyses were
\* still issued, and the run ended in synthesis.
C8_Witness ==
  /\ pc[1] = "failed"
  /\ \E i, j \in 1..Len(log[1]) :
       /\ i < j
       /\ log[1][i].op = "file" /\ log[1][i].res = "StoreCorruptError"
       /\ log[1][j].op = "file" /\ log[1][j].res = "StoreCorruptError"
  /\ log[1][Len(log[1])].op = "guide"

\* C9: any two distinct runs that have started have different timestamps, so
\* their findings paths findings/<timestamp>/findings.json and their
\* transcript paths initial-summaries_<timestamp>.txt differ.
C9_DisjointNamespaces ==
  \A r1 \in Runs : \A r2 \in Runs :
    (r1 # r2 /\ Started(r1) /\ Started(r2)) => timestamp[r1] # timestamp[r2]

\* Two calls in a row with the same key path and the same value.
Repeated(i) ==
  /\ i \in 2..Len(calls)
  /\ calls[i].key = calls[i - 1].key
  /\ calls[i].value = calls[i - 1].value

\* C10: when _update_findings is called twice in a row with the same key path
\* and value, the findings file decodes after the second call to what it
\* decoded to after the first, and the second call raises iff the first did.
C10_Idempotent ==
  \A i \in 1..Len(calls) :
    Repeated(i) =>
      /\ Load(calls[i].after) = Load(calls[i - 1].after)
      /\ calls[i].raised = calls[i - 1].raised

\* C10: a tuple key path was applied twice in a row, the first call changed
\* the file and neither call raised.
C10_Witness ==
  \E i \in 1..Len(calls) :
    /\ Repeated(i)
    /\ calls[i].key.tuple
    /\ ~calls[i].raised
    /\ calls[i - 1].before # calls[i - 1].after

\* The three fields of a findings structure.
Fields(v) ==
  [f \in { root_summary, directories, files } |->
     IF v.kind = "obj" /\ DictHas(v.items, f) THEN DictGet(v.items, f) ELSE JStr(<<"?">>)]

\* C11: every _read_findings that follows a completed _write_findings(F)
\* decodes and returns a structure equal to F in root_summary, directories
\* and files; after _init_findings_file it returns root_summary "" and two
\* empty mappings.
C11_RoundTrip ==
  \A i \in 2..Len(calls) :
    calls[i].op = "read" =>
      /\ calls[i].ok
      /\ Fields(calls[i].data) = Fields(calls[1].data)
      /\ calls[1].op = "init" =>
            Fields(calls[i].data) =
              [f \in { root_summary, directories, files } |->
                 IF f = root_summary THEN JStr(<< >>) ELSE JObj(<< >>)]

\* C11: a structure with two files entries and a directories entry was
\* written and then read.
C11_Witness ==
  /\ Len(calls) >= 2
  /\ calls[1].op = "write"
  /\ Len(Fields(calls[1].data)[files].items) = 2
  /\ Len(Fields(calls[1].data)[directories].items) = 1
  /\ calls[2].op = "read"

\* The places of the members of the mapping `field` with key rel in the
\* findings file of the run.
Entries(self, field, rel) ==
  IF WellFormed(self)
  THEN LET items == DictGet(Findings(self).v.items, field).items
       IN  { i \in 1..Len(items) : items[i].k = rel }
  ELSE { }

\* The places of the transcript blocks of the run with this tag and path.
Blocks(self, tag, rel) ==
  LET t == Transcript(timestamp[self])
  IN  { i \in 1..Len(t) : t[i].tag = tag /\ t[i].path = rel }

\* The paths analyze_file returned a summary for.
Summarised(self) == { e.path : e \in { x \in Events(self) : x.op = "file" /\ x.res = "ok" } }

\* C12: when no write failed, a path analyze_file returned a summary for,
\* once or several times, has exactly one entry in `files` and exactly one
\* block in the transcript.
C12_ReinvokeOverwrites ==
  io_faults = 0 =>
    \A rel \in Summarised(1) :
      /\ Cardinality(Entries(1, files, rel)) = 1
      /\ Cardinality(Blocks(1, "File", rel)) = 1

\* C12, the store alone: when no write failed, a path analyze_file returned a
\* summary for has exactly one entry in `files`, holding the last summary.
C12_FilesEntryOverwritten ==
  io_faults = 0 =>
    \A rel \in Summarised(1) :
      /\ Cardinality(Entries(1, files, rel)) = 1
      /\ \E i \in 1..Len(log[1]) :
           /\ log[1][i].op = "file" /\ log[1][i].path = rel /\ log[1][i].res = "ok"
           /\ \A j \in (i + 1)..Len(log[1]) :
                ~(log[1][j].op = "file" /\ log[1][j].path = rel /\ log[1][j].res = "ok")
           /\ << rel, log[1][i].text >> \in Mapping(1, files)

\* C12, the transcript: a step only adds blocks at the end; no block already
\* written changes.
C12_BlocksNeverEdited ==
  [][\A ts \in DOMAIN summaries_files :
       /\ ts \in DOMAIN summaries_files'
       /\ Len(summaries_files'[ts]) >= Len(summaries_files[ts])
       /\ SubSeq(summaries_files'[ts], 1, Len(summaries_files[ts])) = summaries_files[ts]]_vars

\* The qualifying files that lie in the project root itself, as relative
\* paths.
RootFiles ==
  { relative_to(EntryPath(project_dir, e), project_dir) :
      e \in { x \in tree_files : x.parent = << >>
                                  /\ ~is_excluded(EntryPath(project_dir, x)) } }

\* The text analyze_root stored.
RootTexts(self) == { e.text : e \in { x \in Events(self) : x.op = "root" /\ x.res = "ok" } }

\* C13: after a complete run in which nothing raised, over a tree with a
\* qualifying root-level file: each such file has exactly one `files` entry,
\* `directories` has exactly one entry for the root ".", and root_summary is
\* the text analyze_root stored.
C13_RootCoexists ==
  (pc[1] = "done" /\ NothingRaised(1) /\ RootFiles # { })
    => /\ \A rel \in RootFiles : Cardinality(Entries(1, files, rel)) = 1
       /\ Cardinality(Entries(1, directories, <<".">>)) = 1
       /\ RootTexts(1) = { RootSummary(1) }

\* The same with every file summary non-empty, which is what the code
\* delivers.
C13_RootCoexistsNonEmpty ==
  (pc[1] = "done" /\ NothingRaised(1) /\ RootFiles # { }
     /\ \A e \in Analyses(1) : e.op = "file" => e.text # << >>)
    => /\ \A rel \in RootFiles : Cardinality(Entries(1, files, rel)) = 1
       /\ Cardinality(Entries(1, directories, <<".">>)) = 1
       /\ RootTexts(1) = { RootSummary(1) }

\* t lies in p between some two positions.
Occurs(t, p) ==
  \E i \in 0..Len(p) : \E j \in i..Len(p) :
    /\ j - i = Len(t)
    /\ \A n \in 1..Len(t) : p[i + n] = t[n]

\* C14: is_excluded(P) is TRUE exactly when an entry of EXCLUSION_LIST lies
\* somewhere in P; it is TRUE for every path built around a name that holds a
\* token, whatever precedes or follows the name, and FALSE for the near
\* misses; and the list has 20 entries, the 17th being the two adjacent
\* literals of lines 29-30 joined, neither of which is an entry by itself.
C14_SubstringMatch ==
  /\ \A n \in 1..Len(calls) :
       /\ calls[n].result = (\E i \in 1..Len(EXCLUSION_LIST) :
                               Occurs(EXCLUSION_LIST[i], calls[n].path))
       /\ \A c \in PathCores, b \in PathBefore, a \in PathAfter :
            calls[n].path = b \o c.core \o a => calls[n].result = c.token
  /\ LET joined == EXCLUSION_LIST[17]
         first == SubSeq(joined, 1, 37)
         second == SubSeq(joined, 38, Len(joined))
     IN  /\ Len(EXCLUSION_LIST) = 20
         /\ Len(joined) = 75
         /\ SubSeq(first, 27, 37) = <<"_","_","p","y","c","a","c","h","e","_","_">>
         /\ SubSeq(second, 1, 9) = <<"h","a","n","d","l","e","r","s","/">>
         /\ \A i \in 1..Len(EXCLUSION_LIST) :
              EXCLUSION_LIST[i] # first /\ EXCLUSION_LIST[i] # second

\* C14: is_excluded answered TRUE for a token inside a longer name (xk8sy).
C14_Witness ==
  /\ calls # << >>
  /\ calls[1].path = <<"x","k","8","s","y">>
  /\ calls[1].result

\* C15: when GUIDE_TARGET_PROJECT_DIRECTORY is not set, the run never gets a
\* timestamp, no findings file, transcript or guide exists, no analysis step
\* (hence no oracle request) is logged, and the run is at its start or has
\* returned.
C15_AbortsWithoutInput ==
  ~environ.set =>
    /\ ~Started(1)
    /\ findings_files = << >>
    /\ summaries_files = << >>
    /\ guidebooks = << >>
    /\ log[1] = << >>
    /\ pc[1] \in { "main", "returned" }

\* C15: main() has returned for want of the variable.
C15_Witness == ~environ.set /\ pc[1] = "returned"

\* The update of this step wrote its entry: nothing raised, or only the
\* append that follows the update did.
EntryWritten(e) == e.res \in { "ok", "AppendError" }

\* C16: each key d of `directories` has a key in `files` naming a file lying
\* directly in d whose entry was written before d's; a directory-level
\* request is made at most once per directory, and only after a file lying
\* directly in it returned a non-empty summary.
C16_BottomUp ==
  /\ LET file_keys == FileKeys(1)
     IN  \A d \in DirKeys(1) :
           \E i \in 1..Len(log[1]) : \E j \in 1..(i - 1) :
             /\ log[1][i].op = "directory" /\ log[1][i].path = d /\ EntryWritten(log[1][i])
             /\ log[1][j].op = "file" /\ EntryWritten(log[1][j])
             /\ DirOf(log[1][j].path) = d
             /\ log[1][j].path \in file_keys
  /\ \A i \in 1..Len(log[1]) :
       log[1][i].op = "directory" =>
         /\ \A k \in 1..Len(log[1]) :
              (log[1][k].op = "directory" /\ log[1][k].path = log[1][i].path) => k = i
         /\ \E j \in 1..(i - 1) :
              /\ log[1][j].op = "file" /\ log[1][j].res = "ok"
              /\ log[1][j].text # << >>
              /\ DirOf(log[1][j].path) = log[1][i].path

\* C16: the run is over and `directories` has the keys "." and s/l.
C16_Witness ==
  /\ pc[1] = "done"
  /\ { <<".">>, RelSL } \subseteq DirKeys(1)

RECURSIVE Holds(_, _, _)
\* The structure v has `value` at the key path ks.
Holds(v, ks, value) ==
  /\ v.kind = "obj"
  /\ ks # << >>
  /\ DictHas(v.items, ks[1])
  /\ IF Len(ks) = 1 THEN DictGet(v.items, ks[1]) = value
     ELSE Holds(DictGet(v.items, ks[1]), Tail(ks), value)

\* Each update wrote before the next one read.
Serialized ==
  \A i \in 1..Len(calls) :
    (calls[i].op = "read" /\ i < Len(calls))
      => (calls[i + 1].op = "write" /\ calls[i + 1].caller = calls[i].caller)

\* The completed updates whose value the findings file no longer holds.
Lost ==
  { i \in 1..Len(calls) :
      /\ calls[i].op = "write"
      /\ ~Holds(Load(findings_files[TheStore]).v, calls[i].key.ks, calls[i].value) }

\* C17: an update to one of several distinct key paths is lost only if the
\* updates were interleaved: when each update wrote before the next one read,
\* the file holds the value of every completed update.
C17_LostOnlyIfInterleaved == Serialized => Lost = { }

\* C17: two updates were interleaved, both wrote, and one of them is lost.
C17_Witness ==
  /\ ~Serialized
  /\ Cardinality({ i \in 1..Len(calls) : calls[i].op = "write" }) >= 2
  /\ Lost # { }

\* C18: analyze_directory never returns at its exclusion check (line 170) for
\* a directory the walk handed to it.
C18_ChecksAgree == \A e \in Visits(1) : e.res # "excluded"

\* The same for a project directory whose own path holds no exclusion token.
C18_ChecksAgreeCleanRoot ==
  ~is_excluded(project_dir) => \A e \in Visits(1) : e.res # "excluded"

\* The mapping `field` and the transcript agree: each key has exactly one
\* block with this tag and its path, whole and holding the entry's text.
Agree(self, field, tag) ==
  \A kv \in Mapping(self, field) :
    /\ Cardinality(Blocks(self, tag, kv[1])) = 1
    /\ \A i \in Blocks(self, tag, kv[1]) :
         /\ Transcript(timestamp[self])[i].whole
         /\ Transcript(timestamp[self])[i].text = kv[2]

Consistent(self) ==
  /\ (RootSummary(self) # << >>) <=> (Blocks(self, "Overview", << >>) # { })
  /\ Agree(self, files, "File")
  /\ Agree(self, directories, "Directory")
  /\ \A e \in FileEvents(self) : EntryWritten(e) => Collects(e.res, e.text)

\* C19: between the steps of a started run, root_summary is non-empty exactly
\* when the transcript has the overview block, each key of `files` and of
\* `directories` has exactly one block with its path and its text, and every
\* file whose entry was written counted in its directory's composition.
C19_StoreMatchesTranscript == Started(1) => Consistent(1)

\* The same for runs in which no write failed and the oracle never answered
\* with the empty string.
C19_ConsistentNoFaultNonEmpty ==
  (Started(1) /\ io_faults = 0
     /\ \A e \in Analyses(1) : e.res = "ok" => e.text # << >>)
    => Consistent(1)

RECURSIVE SameExcept(_, _, _, _)
\* The mapping `after` is the mapping `before` with `value` at the key path
\* ks: every key off the path is there as before with the value it had, no
\* other key appeared, and a mapping missing on the path was created.
SameExcept(before, after, ks, value) ==
  /\ before.kind = "obj" /\ after.kind = "obj" /\ ks # << >>
  /\ DictKeys(after.items) = DictKeys(before.items) \cup { ks[1] }
  /\ \A k \in DictKeys(before.items) \ { ks[1] } :
       DictGet(after.items, k) = DictGet(before.items, k)
  /\ IF Len(ks) = 1 THEN DictGet(after.items, ks[1]) = value
     ELSE SameExcept(IF DictHas(before.items, ks[1])
                     THEN DictGet(before.items, ks[1]) ELSE JObj(<< >>),
                     DictGet(after.items, ks[1]), Tail(ks), value)

\* C20: a call of _update_findings that returns leaves the findings as they
\* were except for the leaf at its key path, creating the mappings missing
\* on the way; a call that raises leaves the file as it was.
C20_Frame ==
  \A i \in 1..Len(calls) :
    IF calls[i].raised THEN calls[i].after = calls[i].before
    ELSE SameExcept(Load(calls[i].before).v, Load(calls[i].after).v,
                    calls[i].key.ks, calls[i].value)

\* C20: the entry of file a was written into a `files` mapping that held the
\* entry of file c, in a structure with one more top-level field.
C20_Witness ==
  \E i \in 1..Len(calls) :
    /\ calls[i].key = KeyTuple(<< files, <<"a">> >>)
    /\ ~calls[i].raised
    /\ LET before == Load(calls[i].before).v
       IN  /\ DictHas(before.items, <<"k">>)
           /\ DictHas(DictGet(before.items, files).items, <<"c">>)
           /\ ~DictHas(DictGet(before.items, files).items, <<"a">>)

====
